---- MODULE Spec2Model ----
(***************************************************************************)
(* Verification model of the chunari-backend payment server.               *)
(*                                                                         *)
(* The repository holds two revisions of the server: src/server.js and     *)
(* src/unnamed/part_000 (an earlier, simpler revision).  The variable      *)
(* `variant` says which of the two is the running program.                 *)
(* Modelled are the /verify handler with the GitHub uploader it calls, the *)
(* /create-order handler and the /razorpay-webhook handler of server.js,   *)
(* two /verify requests interleaved at their awaits, and retry and         *)
(* uploadFileToGitHub of utils/githubUploader.js step by step.             *)
(*                                                                         *)
(* Strings are sequences of one-character strings.  The absent JavaScript  *)
(* values `undefined` and `null` are the model values Undefined and Null.  *)
(*                                                                         *)
(* Packages outside the repository (express, razorpay, pdfkit, nodemailer, *)
(* node:crypto, node:fs) are opaque: a call into them is a nondeterministic*)
(* choice among the outcomes the calling code can observe.                 *)
(***************************************************************************)
EXTENDS Integers, Sequences, FiniteSets, TLC

VARIABLES
    variant,        \* "server" (src/server.js) or "part000" (src/unnamed/part_000)
    env,            \* process.env, as far as the handlers read it
    pc,             \* position of the /verify handler for the request in flight
    body,           \* req.body of the request in flight
    pdfPath,        \* local pdfPath of the handler
    githubResult,   \* local githubResult of the handler
    mailInfo,       \* local mailInfo of the handler (part_000)
    resp,           \* HTTP response sent for the request in flight
    calls,          \* what the request in flight has invoked so far
    created,        \* invoice file the request in flight created on disk
    tmpFiles,       \* names of the files present in TMP_DIR
    mail,           \* the sendMail promise of the request in flight
    sig,            \* SpecSig: whether the triple in flight is a resent, changed one
    invoice,        \* what makeInvoicePDFFile was given and wrote for the request in flight
    journal,        \* lines the server has appended to durable logs
    order,          \* the /create-order request in flight
    orders,         \* the orders the gateway has created
    hook,           \* the last /razorpay-webhook request and its answer
    peer,           \* locals of a second /verify request, suspended at an await
    up,             \* locals of a call of uploadFileToGitHub followed step by step
    rt              \* locals of the call of retry in progress

vars == <<variant, env, pc, body, pdfPath, githubResult, mailInfo, resp,
          calls, created, tmpFiles, mail, sig, invoice, journal, order, orders, hook,
          peer, up, rt>>

\* What the /verify handler never touches.
otherVars == <<journal, order, orders, hook, peer, up, rt>>

handlerVars == <<variant, env, pc, body, pdfPath, githubResult, mailInfo, resp,
                 calls, created, tmpFiles, mail>>

----------------------------------------------------------------------------
(* Values *)

\* Strings are sequences, so the two absent values are sequences that no
\* string of one-character elements equals.
Undefined == <<"undefined">>
Null == <<"null">>

\* Longest order id / payment id a client of the signature check sends.
MaxIdLen == 2

\* Characters of order and payment ids.
IdChars == {"a", "b", "|", "_"}

\* Characters the invoice file name keeps (the class [a-zA-Z0-9-_]).
SafeChars == {"a", "b", "_"}

Variants == {"server", "part000"}

\* A JavaScript value where the code expects a number: t is its kind ("undefined",
\* "null", "number", "numstring" for a string such as "500", "text" for a
\* string such as "abc", "true") and n the number it is or converts to.
Js(t, n) == [t |-> t, n |-> n]

JsUndefined == Js("undefined", 0)

\* A cart item { qty, price }, or a null element of the cart array.
Item(qty, price) == [isNull |-> FALSE, qty |-> qty, price |-> price]
NullItem == [isNull |-> TRUE, qty |-> 0, price |-> 0]

\* The cart of a body: absent, something that is no array, or an array.
Cart(kind, items) == [kind |-> kind, items |-> items]
NoCart == Cart("absent", <<>>)

RECURSIVE SeqsUpTo(_, _)
SeqsUpTo(S, n) ==
    IF n = 0 THEN {<<>>}
    ELSE LET shorter == SeqsUpTo(S, n - 1)
         IN  shorter \cup {Append(s, c) : s \in {t \in shorter : Len(t) = n - 1}, c \in S}

----------------------------------------------------------------------------
(* Pure helpers of the server *)

\* JavaScript truthiness of a string-or-undefined value: `!x` is true for
\* undefined and for the empty string.
Falsy(x) == x = Undefined \/ x = Null \/ x = <<>>

\* safeEnv(name): the value when it is a non-empty string, else the fallback.
safeEnv(name, fallback) ==
    IF Falsy(env[name]) THEN fallback ELSE env[name]

\* `${razorpay_order_id}|${razorpay_payment_id}`
SignedMessage(orderId, paymentId) == orderId \o <<"|">> \o paymentId

\* Length of the digest body: the longest message signed, two ids of
\* MaxIdLen + 1 characters (an id of MaxIdLen with a character inserted)
\* around the separator.
DigestLen == 2 * (MaxIdLen + 1) + 1

KeyCode(key) ==
    CASE key = <<>> -> "e"
      [] key = <<"k">> -> "f"
      [] key = <<"w">> -> "c"
      [] OTHER -> "d"

CharCode(c) ==
    CASE c = "a" -> "1"
      [] c = "b" -> "2"
      [] c = "|" -> "3"
      [] c = "_" -> "4"
      [] c = "{" -> "6"
      [] c = "}" -> "7"
      [] c = "q" -> "8"
      [] c = "rep" -> "9"
      [] c = "bad" -> "a"
      [] c = "obj" -> "b"
      [] OTHER -> "5"

\* crypto.createHmac("sha256", key).update(msg).digest("hex").  SHA-256 is
\* idealised: the digest is a fixed-length lower-case hex string that is a
\* function of (key, msg) and differs for different (key, msg).
HmacHex(key, msg) ==
    <<KeyCode(key)>> \o
    [i \in 1..DigestLen |-> IF i <= Len(msg) THEN CharCode(msg[i]) ELSE "0"]

\* A handler that reads no secret and always signs with the empty key.
HmacKeyEmpty == <<>>

\* The key the handler passes to createHmac: safeEnv(...) || "".
HmacKey == safeEnv("RAZORPAY_KEY_SECRET", <<>>)

ExpectedSignature(key, orderId, paymentId) ==
    HmacHex(key, SignedMessage(orderId, paymentId))

\* A comparison that accepts any non-empty prefix of the expected digest.
SignatureAcceptedPrefix(key, orderId, paymentId, signature) ==
    LET expected == ExpectedSignature(key, orderId, paymentId)
    IN  /\ Len(signature) \in 1..Len(expected)
        /\ SubSeq(expected, 1, Len(signature)) = signature

\* expected !== razorpay_signature  (negated: the request is accepted)
SignatureAccepted(key, orderId, paymentId, signature) ==
    ExpectedSignature(key, orderId, paymentId) = signature

\* Number(v): NaN for undefined and for text, else the number v converts to.
Number(v) ==
    IF v.t \in {"undefined", "text"} THEN [nan |-> TRUE, n |-> 0]
    ELSE [nan |-> FALSE, n |-> v.n]

\* typeof v === "number"
IsNumber(v) == v.t = "number"

\* x.toFixed(2) of the amount of p paise: rupees and two decimals.
Fixed2(p) == [rupees |-> p \div 100, paise |-> p % 100]

\* moneyFromPaise(paise) == (Number(paise || 0) / 100).toFixed(2)
moneyFromPaise(v) ==
    IF Number(v).nan \/ Number(v).n = 0 THEN Fixed2(0) ELSE Fixed2(Number(v).n)

\* String(orderId).replace(/[^a-zA-Z0-9-_]/g, "_")
safeId(orderId) ==
    [i \in 1..Len(orderId) |-> IF orderId[i] \in SafeChars THEN orderId[i] ELSE "_"]

\* Name of the invoice file under TMP_DIR ("invoice-order_" and ".pdf" are
\* the same for every request and left out).
InvoiceFileName(v, orderId) ==
    IF v = "server" THEN safeId(orderId) ELSE orderId

\* makeTransporter(): null unless host, user and pass are all set.
makeTransporter ==
    IF Falsy(env["SMTP_HOST"]) \/ Falsy(env["SMTP_USER"]) \/ Falsy(env["SMTP_PASS"])
    THEN Null ELSE <<"transporter">>

\* customer && customer.email ? customer.email : null
toEmail(b) ==
    IF ~b.customer.given THEN Null
    ELSE IF Falsy(b.customer.email) THEN Null ELSE b.customer.email

----------------------------------------------------------------------------
(* Configuration and request bodies explored *)

Secret == <<"k">>

EnvOf(secret, owner, repo, token, host, user, pass) ==
    [RAZORPAY_KEY_SECRET |-> secret,
     GITHUB_OWNER |-> owner, GITHUB_REPO |-> repo, GITHUB_TOKEN |-> token,
     SMTP_HOST |-> host, SMTP_USER |-> user, SMTP_PASS |-> pass,
     RAZORPAY_WEBHOOK_SECRET |-> Undefined]

Set == <<"s">>

\* process.env is read once from the deployment; a variable is either set to
\* a non-empty string or absent.
GithubConfigs ==
    {<<Set, Set, Set>>, <<Undefined, Set, Set>>, <<Set, Undefined, Set>>,
     <<Set, Set, Undefined>>}

SmtpConfigs ==
    {<<Set, Set, Set>>, <<Undefined, Set, Set>>, <<Set, Set, Undefined>>}

Envs ==
    {EnvOf(k, g[1], g[2], g[3], m[1], m[2], m[3]) :
        k \in {Undefined, Secret}, g \in GithubConfigs, m \in SmtpConfigs}

Keys == {<<>>, Secret}

OrderIds == {<<"a">>, <<"|">>}
PaymentIds == {<<"a">>, <<"b">>}

\* The customer object of the body: not given, given without an email
\* address, given with one.
NoCustomer == [given |-> FALSE, email |-> Undefined]

Customers == {NoCustomer, [given |-> TRUE, email |-> Undefined],
              [given |-> TRUE, email |-> <<"c">>]}

\* Signatures a client may send with (orderId, paymentId): none, the empty
\* string, or a digest made with either key for this or another payment id.
Signatures(o, p) ==
    {Undefined, <<>>} \cup
    {HmacHex(k, SignedMessage(o, q)) : k \in Keys, q \in PaymentIds}

BodyOf(o, p, s, c) ==
    [parsed |-> TRUE, razorpay_order_id |-> o, razorpay_payment_id |-> p,
     razorpay_signature |-> s, customer |-> c,
     amountPaise |-> JsUndefined, cart |-> NoCart]

\* {}
EmptyBody == BodyOf(Undefined, Undefined, Undefined, NoCustomer)

\* req.body when the JSON middleware parsed no body: undefined.
NoBody == [EmptyBody EXCEPT !.parsed = FALSE]

\* Bodies with order id and payment id present.
FullBodies ==
    UNION {{BodyOf(o, p, s, c) : s \in Signatures(o, p), c \in Customers} :
           o \in OrderIds, p \in PaymentIds}

\* Bodies in which the order id or the payment id is missing or empty.
PartialBodies ==
    {b \in {BodyOf(o, p, s, NoCustomer) :
                o \in {Undefined, <<>>} \cup OrderIds,
                p \in {Undefined, <<>>} \cup PaymentIds,
                s \in {Undefined, HmacHex(Secret, SignedMessage(<<"a">>, <<"a">>))}} :
        Falsy(b.razorpay_order_id) \/ Falsy(b.razorpay_payment_id)}

\* req.body as the JSON middleware leaves it: an object, or nothing at all
\* when no JSON body was parsed.
Bodies == {NoBody} \cup FullBodies \cup PartialBodies

\* uploaded counts the calls of uploadFileToGitHub that returned.
NoCalls == [render |-> 0, upload |-> 0, sendMail |-> 0, put |-> 0, uploaded |-> 0]

NoSig == [on |-> FALSE]

----------------------------------------------------------------------------
(* Responses *)

\* The status and the JSON body of a response.  An error response has no
\* github and no notification field: github is Null and notify is FALSE.
Reply(status, ok, error, github, notifyField, notify) ==
    [status |-> status, ok |-> ok, error |-> error, github |-> github,
     notifyField |-> notifyField, notify |-> notify]

\* res.status(400).json({ ok: false, error: "Missing required fields" })
MissingFieldsReply ==
    Reply(400, FALSE, "Missing required fields", Null, "none", FALSE)

\* res.status(400).json({ ok: false, error: "Invalid signature" })
InvalidSignatureReply ==
    Reply(400, FALSE, "Invalid signature", Null, "none", FALSE)

\* res.status(500).json({ ok: false, error: err.message || String(err) })
ServerErrorReply ==
    Reply(500, FALSE, "error", Null, "none", FALSE)

\* No response sent yet.
NoReply == Reply(0, FALSE, "none", Null, "none", FALSE)

\* The notification sub-field of the success response: server.js answers
\* emailQueued: true, part_000 answers emailSent: !!mailInfo.
NotifyFieldName(v) == IF v = "server" THEN "emailQueued" ELSE "emailSent"

NotifyFieldValue(v, info) == IF v = "server" THEN TRUE ELSE info # Null

\* github: githubResult ? { commitSha: ... } : null
GithubField(result) == IF result = Null THEN Null ELSE result

SuccessReply(v, result, info) ==
    Reply(200, TRUE, "none", GithubField(result), NotifyFieldName(v), NotifyFieldValue(v, info))

----------------------------------------------------------------------------
(* The /verify handler, one step per action *)

\* const { ... } = req.body || {}   (server.js)
\* const { ... } = req.body         (part_000: a TypeError when there is no body)
DestructureThrows(v, b) == ~b.parsed /\ v # "server"

Destructure(v, b) == IF b.parsed THEN b ELSE EmptyBody

\* if (!razorpay_order_id || !razorpay_payment_id || !razorpay_signature)
FieldsMissing(b) ==
    \/ Falsy(b.razorpay_order_id)
    \/ Falsy(b.razorpay_payment_id)
    \/ Falsy(b.razorpay_signature)

\* Where the handler continues when a step throws: the archival and the
\* notification blocks have their own try/catch, the render has only the
\* handler's outer one.
AfterRenderErrorSwallowed == "rendered"
AfterRenderError == "catch"

AfterUploadErrorFatal == "catch"
AfterUploadError == "archived"

AfterMailErrorFatal == "catch"
AfterMailError == "notified"

\* A request arrives with body b.
Arrive(b) ==
    /\ pc = "idle"
    /\ pc' = "received"
    /\ body' = b
    /\ UNCHANGED <<variant, env, pdfPath, githubResult, mailInfo, resp, calls,
                   created, tmpFiles, mail, sig, invoice, otherVars>>

\* Destructuring of the body and the required-field check.
CheckFields ==
    /\ pc = "received"
    /\ LET b == Destructure(variant, body)
       IN  IF DestructureThrows(variant, body)
           THEN /\ pc' = "catch"
                /\ resp' = resp
           ELSE IF FieldsMissing(b)
           THEN /\ pc' = "responded"
                /\ resp' = MissingFieldsReply
           ELSE /\ pc' = "fields_ok"
                /\ resp' = resp
    /\ UNCHANGED <<variant, env, body, pdfPath, githubResult, mailInfo, calls,
                   created, tmpFiles, mail, sig, invoice, otherVars>>

\* HMAC verification.
CheckSignature ==
    /\ pc = "fields_ok"
    /\ IF SignatureAccepted(HmacKey, body.razorpay_order_id,
                            body.razorpay_payment_id, body.razorpay_signature)
       THEN /\ pc' = "verified"
            /\ resp' = resp
       ELSE /\ pc' = "responded"
            /\ resp' = InvalidSignatureReply
    /\ UNCHANGED <<variant, env, body, pdfPath, githubResult, mailInfo, calls,
                   created, tmpFiles, mail, sig, invoice, otherVars>>

\* The billing facts the handler passes to makeInvoicePDFFile:
\*   amountPaise: typeof amountPaise === "number" ? amountPaise : undefined
\*   customer:    customer || {}
\*   cart:        Array.isArray(cart) ? cart : []
RenderAmountCoerced(b) ==
    IF Number(b.amountPaise).nan THEN JsUndefined ELSE Js("number", Number(b.amountPaise).n)

RenderAmount(b) == IF IsNumber(b.amountPaise) THEN b.amountPaise ELSE JsUndefined

RenderArgs(b) ==
    [amountPaise |-> RenderAmount(b),
     customer |-> IF b.customer.given THEN b.customer
                  ELSE [given |-> TRUE, email |-> Undefined],
     cart |-> IF b.cart.kind = "array" THEN b.cart.items ELSE <<>>]

\* cart.forEach((it) => ... it.qty ...): a TypeError for a null element.
RenderThrows(args) == \E i \in 1..Len(args.cart) : args.cart[i].isNull

\* subtotal += Number(it.qty || 1) * Number(it.price || 0), in rupees.
RECURSIVE CartTotal(_)
CartTotal(items) ==
    IF items = <<>> THEN 0
    ELSE (IF Head(items).qty = 0 THEN 1 ELSE Head(items).qty) * Head(items).price
         + CartTotal(Tail(items))

\* The figures makeInvoicePDFFile writes: the subtotal (the cart's total, or
\* amountPaise / 100 for an empty cart, or 0) and the "Total Paid" line, which
\* is written only for a numeric amountPaise.
InvoiceOf(args) ==
    [made |-> TRUE,
     amountPaise |-> args.amountPaise, customer |-> args.customer, cart |-> args.cart,
     subtotal |-> IF RenderThrows(args) THEN Fixed2(0)
                  ELSE IF args.cart # <<>> THEN Fixed2(100 * CartTotal(args.cart))
                  ELSE IF IsNumber(args.amountPaise) THEN Fixed2(args.amountPaise.n)
                  ELSE Fixed2(0),
     totalShown |-> ~RenderThrows(args) /\ IsNumber(args.amountPaise),
     totalPaid |-> moneyFromPaise(args.amountPaise)]

\* No invoice composed yet.
NoInvoice ==
    [made |-> FALSE, amountPaise |-> JsUndefined,
     customer |-> [given |-> TRUE, email |-> Undefined], cart |-> <<>>,
     subtotal |-> Fixed2(0), totalShown |-> FALSE, totalPaid |-> Fixed2(0)]

\* What makeInvoicePDFFile can do: finish the file and resolve with its path;
\* reject without having created the file; reject after createWriteStream
\* has created it (a throw later in the executor, or a stream error).
RenderOutcomes == {"finish", "error_no_file", "error_file_open"}

\* pdfPath = await makeInvoicePDFFile({...})
Render(outcome) ==
    /\ pc = "verified"
    /\ RenderThrows(RenderArgs(body)) => outcome # "finish"
    /\ invoice' = InvoiceOf(RenderArgs(body))
    /\ LET file == InvoiceFileName(variant, body.razorpay_order_id)
       IN  /\ calls' = [calls EXCEPT !.render = 1]
           /\ CASE outcome = "finish" ->
                     /\ tmpFiles' = tmpFiles \cup {file}
                     /\ created' = file
                     /\ pdfPath' = file
                     /\ pc' = "rendered"
                [] outcome = "error_file_open" ->
                     /\ tmpFiles' = tmpFiles \cup {file}
                     /\ created' = file
                     /\ pdfPath' = pdfPath
                     /\ pc' = AfterRenderError
                [] OTHER ->
                     /\ UNCHANGED <<tmpFiles, created, pdfPath>>
                     /\ pc' = AfterRenderError
    /\ UNCHANGED <<variant, env, body, githubResult, mailInfo, resp, mail, sig, otherVars>>

\* Owner and repository the handler passes to the uploader: server.js has no
\* fallback, part_000 falls back to the repository's own name.
GithubOwner(v) ==
    IF v = "server" THEN safeEnv("GITHUB_OWNER", Undefined) ELSE safeEnv("GITHUB_OWNER", Set)

GithubRepo(v) ==
    IF v = "server" THEN safeEnv("GITHUB_REPO", Undefined) ELSE safeEnv("GITHUB_REPO", Set)

\* Whether the handler calls uploadFileToGitHub: server.js skips the call when
\* owner, repo or token is missing; part_000 always calls.
UploadAttempted(v) ==
    IF v = "server"
    THEN /\ ~(Falsy(GithubOwner(v)) \/ Falsy(GithubRepo(v)))
         /\ ~Falsy(safeEnv("GITHUB_TOKEN", Undefined))
    ELSE TRUE

\* uploadFileToGitHub: throws at once when owner, repo, path or token is
\* missing; otherwise it returns GitHub's answer or throws.
UploadOutcomes(owner, repo, token) ==
    IF Falsy(owner) \/ Falsy(repo) \/ Falsy(token)
    THEN {"throw"}
    ELSE {"ok", "throw"}

\* The sha of the commit a PUT creates: GitHub gives every commit its own,
\* here the first of "1", "2" that no other request in flight holds.
CommitSha ==
    IF peer.githubResult # Null /\ peer.githubResult[2] = "1" THEN "2" ELSE "1"

\* The answer of a successful upload of the file at `path`: the JSON of the
\* PUT, with the sha of the commit that stored the file.
UploadResult(path, sha) == <<"sha", sha>> \o path

\* retry(fn, tries): the loop `for (let i = 0; i < tries; i++)`.
RetryContinuesInclusive(i, tries) == i <= tries
RetryContinues(i, tries) == i < tries

\* retry(fn, tries, delayMs).  answers[k] is what the k-th call of fn does:
\* "err" when it throws, "stall" when its await never resumes, anything else
\* when it returns.  The result says how many calls were made and how they ended.
RECURSIVE retry(_, _, _)
retry(answers, tries, i) ==
    IF RetryContinues(i, tries)
    THEN CASE answers[i + 1] = "err" -> retry(answers, tries, i + 1)
           [] answers[i + 1] = "stall" -> [calls |-> i + 1, end |-> "stall"]
           [] OTHER -> [calls |-> i + 1, end |-> "return"]
    ELSE [calls |-> i, end |-> "throw"]

\* retry(..., 3, 600) around the existence check, retry(..., 3, 800) around the PUT.
GetTries == 3
PutTries == 3

\* What one existence check (GET) can do: 200, 404, a throw (another status,
\* a network error, the abort of fetchWithTimeout), or a response whose body
\* never ends (the timer of fetchWithTimeout is cleared once the headers are in).
GetAnswers == {"200", "404", "err", "stall"}

\* What one PUT can do: an ok status, a throw (a status that is not ok, a
\* network error, the abort), or a response whose body never ends.
PutAnswers == {"ok", "err", "stall"}

\* uploadFileToGitHub after its argument check: the existence check under
\* retry, then the PUT under retry; the PUT is reached only when a check returned.
UploadRun(getAnswers, putAnswers) ==
    LET check == retry(getAnswers, GetTries, 0)
        put == retry(putAnswers, PutTries, 0)
    IN  IF check.end # "return" THEN [end |-> check.end, puts |-> 0]
        ELSE [end |-> put.end, puts |-> put.calls]

\* The runs of the uploader under every behaviour of GitHub.
UploadRuns ==
    {UploadRun(g, p) : g \in [1..(GetTries + 1) -> GetAnswers],
                       p \in [1..(PutTries + 1) -> PutAnswers]}

\* if (!owner || !repo || !repoPath || !token) throw ...
UploadArgsMissing(owner, repo, token) == Falsy(owner) \/ Falsy(repo) \/ Falsy(token)

\* Upload file to GitHub (best-effort): the call of uploadFileToGitHub, or the skip.
ArchiveStart ==
    /\ pc = "rendered"
    /\ IF UploadAttempted(variant)
       THEN /\ calls' = [calls EXCEPT !.upload = @ + 1]
            /\ pc' = "uploading"
       ELSE /\ calls' = calls
            /\ pc' = "archived"
    /\ UNCHANGED <<variant, env, body, pdfPath, githubResult, mailInfo, resp, created,
                   tmpFiles, mail, sig, invoice, otherVars>>

\* The awaited uploadFileToGitHub ends: it returns, throws, or never resumes.
ArchiveEnd(run) ==
    /\ pc = "uploading"
    /\ IF UploadArgsMissing(GithubOwner(variant), GithubRepo(variant),
                            safeEnv("GITHUB_TOKEN", Undefined))
       THEN run = [end |-> "throw", puts |-> 0]
       ELSE run \in UploadRuns
    /\ (IF run.end = "return" THEN "ok" ELSE "throw") \in
           UploadOutcomes(GithubOwner(variant), GithubRepo(variant),
                          safeEnv("GITHUB_TOKEN", Undefined))
    /\ calls' = [calls EXCEPT !.put = run.puts,
                              !.uploaded = IF run.end = "return" THEN @ + 1 ELSE @]
    /\ CASE run.end = "return" ->
              /\ githubResult' = UploadResult(pdfPath, CommitSha)
              /\ pc' = "archived"
         [] run.end = "throw" ->
              /\ githubResult' = githubResult
              /\ pc' = AfterUploadError
         [] OTHER ->
              /\ githubResult' = githubResult
              /\ pc' = "upload_stalled"
    /\ UNCHANGED <<variant, env, body, pdfPath, mailInfo, resp, created,
                   tmpFiles, mail, sig, invoice, otherVars>>

\* Whether the handler calls transporter.sendMail.
SendAttempted == makeTransporter # Null /\ toEmail(body) # Null

\* Whether the handler awaits the promise of sendMail: part_000 does
\* (`await transporter.sendMail`), server.js attaches .then/.catch and goes on.
SendAwaitedNever(v) == FALSE
SendAwaited(v) == v # "server"

\* What the sendMail call itself can do: throw synchronously (server.js
\* catches that in the email block) or return a pending promise.
SendOutcomes(v) ==
    IF v = "server" THEN {"failed_sync", "pending"} ELSE {"pending"}

\* Email the invoice to the customer: the call of sendMail, or the skip.
NotifyStart(outcome) ==
    /\ pc = "archived"
    /\ IF SendAttempted
       THEN /\ outcome \in SendOutcomes(variant)
            /\ calls' = [calls EXCEPT !.sendMail = @ + 1]
            /\ mail' = outcome
            /\ pc' = IF outcome = "failed_sync" THEN AfterMailError
                     ELSE IF SendAwaited(variant) THEN "sending"
                     ELSE "notified"
       ELSE /\ outcome = "skip"
            /\ UNCHANGED <<calls, mail>>
            /\ pc' = "notified"
    /\ UNCHANGED <<variant, env, body, pdfPath, githubResult, mailInfo, resp, created,
                   tmpFiles, sig, invoice, otherVars>>

\* The send reads its attachment { path: pdfPath } from the disk: the read
\* happens some time after the call of sendMail and fails when the file is gone.
MailRead ==
    /\ mail = "pending"
    /\ mail' = IF created \in tmpFiles THEN "streamed" ELSE "failed_async"
    /\ UNCHANGED <<variant, env, pc, body, pdfPath, githubResult, mailInfo, resp,
                   calls, created, tmpFiles, sig, invoice, otherVars>>

\* The awaited sendMail of part_000 ends: it resolves, rejects, or never
\* resumes (makeTransporter of part_000 sets no timeout).
NotifyEnd(outcome) ==
    /\ pc = "sending"
    /\ mail \in {"pending", "streamed"}
    /\ outcome \in {"sent", "failed_async", "never"}
    /\ outcome = "sent" => mail = "streamed"
    /\ mail' = IF outcome = "never" THEN mail ELSE outcome
    /\ mailInfo' = IF outcome = "sent" THEN <<"info">> ELSE mailInfo
    /\ pc' = CASE outcome = "sent" -> "notified"
               [] outcome = "failed_async" -> AfterMailError
               [] OTHER -> "send_stalled"
    /\ UNCHANGED <<variant, env, body, pdfPath, githubResult, resp, calls, created,
                   tmpFiles, sig, invoice, otherVars>>

\* fsPromises.unlink(path): removes the file, or fails and leaves it.
Unlink(files, path, outcome) ==
    IF outcome = "ok" THEN files \ {path} ELSE files

\* Cleanup: remove the local PDF file; a failing unlink is ignored.
Cleanup(outcome) ==
    /\ pc = "notified"
    /\ outcome \in {"ok", "fail"}
    /\ tmpFiles' = IF pdfPath # Null THEN Unlink(tmpFiles, pdfPath, outcome) ELSE tmpFiles
    /\ pc' = "cleaned"
    /\ UNCHANGED <<variant, env, body, pdfPath, githubResult, mailInfo, resp,
                   calls, created, mail, sig, invoice, otherVars>>

\* return res.json({ ok: true, ... })
Respond ==
    /\ pc = "cleaned"
    /\ resp' = SuccessReply(variant, githubResult, mailInfo)
    /\ pc' = "responded"
    /\ UNCHANGED <<variant, env, body, pdfPath, githubResult, mailInfo, calls,
                   created, tmpFiles, mail, sig, invoice, otherVars>>

\* Whether the outer catch block removes the file named by pdfPath:
\* server.js does (pdfPath is declared outside the try), part_000 does not.
CatchUnlinks(v) == v = "server"

\* The handler's outer catch: answer 500.
OuterCatch(outcome) ==
    /\ pc = "catch"
    /\ outcome \in {"ok", "fail"}
    /\ tmpFiles' = IF CatchUnlinks(variant) /\ pdfPath # Null
                   THEN Unlink(tmpFiles, pdfPath, outcome) ELSE tmpFiles
    /\ resp' = ServerErrorReply
    /\ pc' = "responded"
    /\ UNCHANGED <<variant, env, body, pdfPath, githubResult, mailInfo, calls,
                   created, mail, sig, invoice, otherVars>>

\* The background sendMail promise of server.js settles; .then / .catch only
\* log.  It resolves only when the attachment was read.
MailSettle(outcome) ==
    /\ ~SendAwaited(variant)
    /\ mail \in {"pending", "streamed"}
    /\ outcome \in {"sent", "failed_async"}
    /\ outcome = "sent" => mail = "streamed"
    /\ mail' = outcome
    /\ UNCHANGED <<variant, env, pc, body, pdfPath, githubResult, mailInfo, resp,
                   calls, created, tmpFiles, sig, invoice, otherVars>>

\* The request is over; the handler's locals are gone.  The files in TMP_DIR stay.
Finish ==
    /\ pc = "responded"
    /\ pc' = "idle"
    /\ body' = NoBody
    /\ pdfPath' = Null
    /\ githubResult' = Null
    /\ mailInfo' = Null
    /\ resp' = NoReply
    /\ calls' = NoCalls
    /\ created' = Null
    /\ mail' = "none"
    /\ invoice' = NoInvoice
    /\ UNCHANGED <<variant, env, tmpFiles, sig, otherVars>>

----------------------------------------------------------------------------
(* The /create-order handler *)

\* What the handler has answered: nothing yet, the gateway's order, or an error.
OrderReply(status, id) == [status |-> status, id |-> id]

\* No /create-order request in flight.
NoOrder ==
    [pc |-> "idle", parsed |-> FALSE, amount |-> JsUndefined, gatewayCalls |-> 0,
     resp |-> OrderReply(0, Null)]

\* if (!amount || amount <= 0), for amount = Number(req.body.amount)
AmountRejected(amount) == amount.nan \/ amount.n = 0 \/ amount.n <= 0

\* A /create-order request arrives; the server takes one request at a time.
CreateArrive(parsed, amount) ==
    /\ pc = "idle"
    /\ order.pc = "idle"
    /\ order' = [NoOrder EXCEPT !.pc = "received", !.parsed = parsed, !.amount = amount]
    /\ UNCHANGED <<handlerVars, sig, invoice, journal, orders, hook, peer, up, rt>>

\* const amount = Number(req.body.amount): a TypeError when there is no body,
\* which the handler's catch answers with 500; then the amount check; then
\* the call of razorpay.orders.create.
CreateCheck ==
    /\ order.pc = "received"
    /\ order' =
          IF ~order.parsed
          THEN [order EXCEPT !.pc = "responded", !.resp = OrderReply(500, Null)]
          ELSE IF AmountRejected(Number(order.amount))
          THEN [order EXCEPT !.pc = "responded", !.resp = OrderReply(400, Null)]
          ELSE [order EXCEPT !.pc = "calling", !.gatewayCalls = @ + 1]
    /\ UNCHANGED <<handlerVars, sig, invoice, journal, orders, hook, peer, up, rt>>

\* The awaited razorpay.orders.create ends: the gateway has created an order
\* with a fresh id and the handler answers res.json(order), or the call
\* throws and the handler answers 500.  Nothing is kept by the server.
GatewayAnswer(outcome, id) ==
    /\ order.pc = "calling"
    /\ IF outcome = "created"
       THEN /\ id \notin {r.id : r \in orders}
            /\ orders' = orders \cup {[id |-> id, amount |-> Number(order.amount).n]}
            /\ order' = [order EXCEPT !.pc = "responded", !.resp = OrderReply(200, id)]
       ELSE /\ orders' = orders
            /\ order' = [order EXCEPT !.pc = "responded", !.resp = OrderReply(500, Null)]
    /\ UNCHANGED <<handlerVars, sig, invoice, journal, hook, peer, up, rt>>

\* The request is over.
CreateFinish ==
    /\ order.pc = "responded"
    /\ order' = NoOrder
    /\ UNCHANGED <<handlerVars, sig, invoice, journal, orders, hook, peer, up, rt>>

----------------------------------------------------------------------------
(* The /razorpay-webhook handler *)

\* Longest raw webhook body sent.
MaxBodyLen == 3

\* Bytes of a webhook body: braces, a double quote ("q"), the three bytes of
\* U+FFFD taken as one ("rep"), and a byte that is not valid UTF-8 ("bad").
ByteChars == {"{", "}", "q", "rep", "bad"}

\* rawBody.toString("utf8"): the characters of the bytes; every invalid byte
\* becomes the character U+FFFD ("fffd"), which is also what "rep" decodes to.
Utf8Decode(bytes) ==
    [i \in 1..Len(bytes) |-> IF bytes[i] \in {"bad", "rep"} THEN "fffd" ELSE bytes[i]]

\* The UTF-8 bytes of a string, as hmac.update(string) hashes them.
Utf8Encode(str) ==
    [i \in 1..Len(str) |-> IF str[i] = "fffd" THEN "rep" ELSE str[i]]

\* bodyStr = rawBody && rawBody.toString ? rawBody.toString("utf8") : ""
\* req.body is the Buffer express.raw read, or, when express.raw read nothing
\* (another content type, no body), undefined or the object {}.
BodyStr(kind, raw) ==
    CASE kind = "buffer" -> Utf8Decode(raw)
      [] kind = "object" -> <<"obj">>
      [] OTHER -> <<>>

\* JSON.parse on the strings explored: they parse when they are `{}` or a
\* string literal.
JsonParses(str) ==
    \/ str = <<"{", "}">>
    \/ /\ Len(str) >= 2
       /\ str[1] = "q" /\ str[Len(str)] = "q"
       /\ \A i \in 2..(Len(str) - 1) : str[i] \notin {"q", "obj"}

\* (req.headers["x-razorpay-signature"] || "").toString()
HeaderSignature(header) == IF Falsy(header) THEN <<>> ELSE header

\* if (webhookSecret) { ... } else { warn: verification skipped }
WebhookChecksAlways(secret) == TRUE
WebhookChecks(secret) == ~Falsy(secret)

HookReply(status, text, log, compared, parseCalled) ==
    [status |-> status, text |-> text, log |-> log, compared |-> compared,
     parseCalled |-> parseCalled]

\* The handler, which has no await: signature check, JSON.parse, answer.
WebhookReply(kind, raw, header) ==
    LET bodyStr == BodyStr(kind, raw)
        webhookSecret == safeEnv("RAZORPAY_WEBHOOK_SECRET", Undefined)
        signature == HeaderSignature(header)
        key == IF Falsy(webhookSecret) THEN <<>> ELSE webhookSecret
        expected == HmacHex(key, Utf8Encode(bodyStr))
    IN  IF WebhookChecks(webhookSecret) /\ (signature = <<>> \/ expected # signature)
        THEN HookReply(400, "Invalid signature", "mismatch",
                       TRUE, FALSE)
        ELSE IF ~JsonParses(bodyStr)
        THEN HookReply(400, "Invalid JSON",
                       IF WebhookChecks(webhookSecret) THEN "none" ELSE "skipped",
                       WebhookChecks(webhookSecret), TRUE)
        ELSE HookReply(200, "OK",
                       IF WebhookChecks(webhookSecret) THEN "none" ELSE "skipped",
                       WebhookChecks(webhookSecret), TRUE)

\* No webhook request handled yet.
NoHook ==
    [handled |-> FALSE, kind |-> "none", raw |-> <<>>, header |-> Undefined,
     reply |-> HookReply(0, "none", "none", FALSE, FALSE)]

\* A webhook request is handled.
Webhook(kind, raw, header) ==
    /\ ~hook.handled
    /\ hook' = [handled |-> TRUE, kind |-> kind, raw |-> raw, header |-> header,
                reply |-> WebhookReply(kind, raw, header)]
    /\ UNCHANGED <<handlerVars, sig, invoice, journal, order, orders, peer, up, rt>>

\* The request is over.
WebhookDone ==
    /\ hook.handled
    /\ hook' = NoHook
    /\ UNCHANGED <<handlerVars, sig, invoice, journal, order, orders, peer, up, rt>>

(* retry and uploadFileToGitHub, step by step *)

\* How one call of fn ends: it returns a value, throws an error, or its
\* promise never settles.
Outcome(kind, what) == [kind |-> kind, what |-> what]

\* No call of retry in progress.
NoRetry ==
    [state |-> "none", tries |-> 0, i |-> 0, delayMs |-> 0, lastErr |-> Undefined,
     log |-> <<>>, waits |-> <<>>, out |-> Undefined]

\* The loop `for (let i = 0; i < tries; i++)` reaches index j: it calls fn
\* again, or ends and `throw lastErr` runs.
RetryAdvance(r, j) ==
    IF RetryContinues(j, r.tries)
    THEN [r EXCEPT !.i = j, !.state = "calling"]
    ELSE [r EXCEPT !.i = j, !.state = "threw", !.out = r.lastErr]

\* retry(fn, tries, delayMs) up to its first await.
RetryStart(tries, delayMs) ==
    RetryAdvance([NoRetry EXCEPT !.tries = tries, !.delayMs = delayMs], 0)

\* if (i < tries - 1): a delay follows the failed call.
RetryDelaysAlways(i, tries) == TRUE
RetryDelays(i, tries) == i < tries - 1

\* The awaited call of fn ends with outcome o: `return await fn()`, or the
\* catch block (lastErr = err, then the delay or the next round).  log holds
\* the calls made and how each ended.
RetryAnswer(r, o) ==
    LET called == [r EXCEPT !.log = Append(@, o)]
        caught == [called EXCEPT !.lastErr = o.what]
    IN  CASE o.kind = "return" -> [called EXCEPT !.state = "returned", !.out = o.what]
          [] o.kind = "throw" ->
                IF RetryDelays(r.i, r.tries)
                THEN [caught EXCEPT !.state = "waiting"]
                ELSE RetryAdvance(caught, r.i + 1)
          [] OTHER -> [called EXCEPT !.state = "pending"]

\* The timer of the delay fires: delayMs *= 1.5, then the next round.  waits
\* holds the delays waited.
RetryWake(r) ==
    RetryAdvance([r EXCEPT !.waits = Append(@, r.delayMs),
                           !.delayMs = (@ * 3) \div 2], r.i + 1)

\* Calls of fn made so far, the one in progress included.
RetryCalls(r) == Len(r.log) + (IF r.state = "calling" THEN 1 ELSE 0)

\* Delays of the two retries of the uploader, and the default of retry.
GetDelayMs == 600
PutDelayMs == 800
DefaultDelayMs == 700

\* An HTTP answer: status and what reading the body gives ("json" with the
\* sha it carries, "invalid" when r.json() throws, "text", "never" when the
\* body never ends); status 0 stands for a fetch that rejects, body saying
\* why ("network", or "abort" by the timer of fetchWithTimeout).
Resp(status, content, sha) == [status |-> status, body |-> content, sha |-> sha]

Shas == {<<"x">>}

\* Answers to the existence check: the file with its sha, a JSON without a
\* sha, an unreadable or endless body, not found, a client error, a server
\* error, no answer.
GetResponses ==
    {Resp(200, "json", sha) : sha \in Shas \cup {Undefined}} \cup
    {Resp(200, "invalid", Undefined), Resp(200, "never", Undefined),
     Resp(404, "json", Undefined), Resp(403, "text", Undefined),
     Resp(500, "text", Undefined),
     Resp(0, "network", Undefined), Resp(0, "abort", Undefined)}

\* Answers to the PUT: created, created with an unreadable or endless body,
\* a client error, a server error, no answer.
PutResponses ==
    {Resp(201, "json", Undefined), Resp(201, "invalid", Undefined),
     Resp(201, "never", Undefined), Resp(422, "json", Undefined),
     Resp(500, "json", Undefined),
     Resp(0, "network", Undefined), Resp(0, "abort", Undefined)}

\* r.ok
Ok(a) == a.status >= 200 /\ a.status <= 299

\* The fn of the existence check: 200 returns the JSON, 404 returns null,
\* every other status throws, as does a fetch that rejects.
GetFnAnyStatus(a) ==
    IF a.status = 0 THEN Outcome("throw", <<a.body>>) ELSE Outcome("return", <<"j">>)

GetFn(a) ==
    CASE a.status = 0 -> Outcome("throw", <<a.body>>)
      [] a.body = "never" -> Outcome("never", Undefined)
      [] a.status = 200 /\ a.body = "json" -> Outcome("return", <<"j">>)
      [] a.status = 200 -> Outcome("throw", <<"SyntaxError">>)
      [] a.status = 404 -> Outcome("return", Null)
      [] OTHER -> Outcome("throw", <<"GET status">>)

\* if (j && j.sha) sha = j.sha
GetSha(sha, a) ==
    IF a.status = 200 /\ a.body = "json" /\ ~Falsy(a.sha) THEN a.sha ELSE sha

\* The fn of the PUT: r.json() first, then a throw unless r.ok.
PutFn(a) ==
    CASE a.status = 0 -> Outcome("throw", <<a.body>>)
      [] a.body = "never" -> Outcome("never", Undefined)
      [] a.body = "invalid" -> Outcome("throw", <<"SyntaxError">>)
      [] ~Ok(a) -> Outcome("throw", <<"PUT status">>)
      [] OTHER -> Outcome("return", <<"resJson">>)

\* The arguments of uploadFileToGitHub.
UploadArgs(owner, repo, path, token, localFilePath, contentBuffer) ==
    [owner |-> owner, repo |-> repo, path |-> path, token |-> token,
     localFilePath |-> localFilePath, contentBuffer |-> contentBuffer]

\* Calls explored: everything given, one required argument missing, the
\* content given as a buffer, no content given.
UploadCalls ==
    {UploadArgs(Set, Set, Set, Set, f, b) : f \in {Set, Undefined}, b \in {Set, Undefined}} \cup
    {UploadArgs(Undefined, Set, Set, Set, Set, Undefined),
     UploadArgs(Set, Undefined, Set, Set, Set, Undefined),
     UploadArgs(Set, Set, Undefined, Set, Set, Undefined),
     UploadArgs(Set, Set, Set, Undefined, Set, Undefined)}

\* No call of uploadFileToGitHub in progress.  gets and puts hold the answers
\* to the GETs and PUTs made, reads counts the reads of the local file,
\* payloadSha is the sha the payload of the PUT carries.
NoUpload ==
    [pc |-> "idle", args |-> UploadArgs(Undefined, Undefined, Undefined, Undefined,
                                        Undefined, Undefined),
     reads |-> 0, sha |-> Undefined, payloadSha |-> Undefined,
     gets |-> <<>>, puts |-> <<>>, error |-> "none", result |-> Undefined]

\* After the retry of the existence check moved to r: on its return the
\* payload is built (`if (sha) payload.sha = sha`) and the retry of the PUT
\* starts; on its throw the uploader throws 'Error checking existing file'.
AfterCheck(u, r) ==
    CASE r.state = "returned" ->
            /\ up' = [u EXCEPT !.pc = "putting",
                               !.payloadSha = IF Falsy(u.sha) THEN Undefined ELSE u.sha]
            /\ rt' = RetryStart(PutTries, PutDelayMs)
      [] r.state = "threw" ->
            /\ up' = [u EXCEPT !.pc = "threw", !.error = "check"]
            /\ rt' = r
      [] r.state = "pending" ->
            /\ up' = [u EXCEPT !.pc = "pending"]
            /\ rt' = r
      [] OTHER ->
            /\ up' = u
            /\ rt' = r

\* After the retry of the PUT moved to r: on its return the uploader returns
\* the JSON of the PUT; on its throw it throws 'GitHub upload failed'.
AfterPut(u, r) ==
    CASE r.state = "returned" ->
            /\ up' = [u EXCEPT !.pc = "returned", !.result = r.out]
            /\ rt' = r
      [] r.state = "threw" ->
            /\ up' = [u EXCEPT !.pc = "threw", !.error = "put"]
            /\ rt' = r
      [] r.state = "pending" ->
            /\ up' = [u EXCEPT !.pc = "pending"]
            /\ rt' = r
      [] OTHER ->
            /\ up' = u
            /\ rt' = r

\* uploadFileToGitHub(args) up to its first network call: the argument check,
\* the read of the local file (which a missing file makes throw) or the
\* buffer, then the first GET of retry(..., 3, 600).
UploadCall(args, read) ==
    /\ up.pc = "idle"
    /\ read \in {"ok", "enoent"}
    /\ LET u == [NoUpload EXCEPT !.args = args]
       IN  IF UploadArgsMissing(args.owner, args.repo, args.token) \/ Falsy(args.path)
           THEN /\ read = "ok"
                /\ up' = [u EXCEPT !.pc = "threw", !.error = "args"]
                /\ rt' = rt
           ELSE IF ~Falsy(args.localFilePath)
           THEN IF read = "enoent"
                THEN /\ up' = [u EXCEPT !.pc = "threw", !.error = "read", !.reads = 1]
                     /\ rt' = rt
                ELSE AfterCheck([u EXCEPT !.pc = "checking", !.reads = 1],
                                RetryStart(GetTries, GetDelayMs))
           ELSE IF ~Falsy(args.contentBuffer)
           THEN /\ read = "ok"
                /\ AfterCheck([u EXCEPT !.pc = "checking"], RetryStart(GetTries, GetDelayMs))
           ELSE /\ read = "ok"
                /\ up' = [u EXCEPT !.pc = "threw", !.error = "content"]
                /\ rt' = rt
    /\ UNCHANGED <<handlerVars, sig, invoice, journal, order, orders, hook, peer>>

\* GitHub answers the GET of the existence check with a.
CheckAnswer(a) ==
    /\ up.pc = "checking"
    /\ rt.state = "calling"
    /\ AfterCheck([up EXCEPT !.gets = Append(@, a), !.sha = GetSha(@, a)],
                  RetryAnswer(rt, GetFn(a)))
    /\ UNCHANGED <<handlerVars, sig, invoice, journal, order, orders, hook, peer>>

\* GitHub answers the PUT with a.
PutAnswer(a) ==
    /\ up.pc = "putting"
    /\ rt.state = "calling"
    /\ AfterPut([up EXCEPT !.puts = Append(@, a)], RetryAnswer(rt, PutFn(a)))
    /\ UNCHANGED <<handlerVars, sig, invoice, journal, order, orders, hook, peer>>

\* The delay between two attempts is over.
UploadWake ==
    /\ up.pc \in {"checking", "putting"}
    /\ rt.state = "waiting"
    /\ IF up.pc = "checking" THEN AfterCheck(up, RetryWake(rt))
       ELSE AfterPut(up, RetryWake(rt))
    /\ UNCHANGED <<handlerVars, sig, invoice, journal, order, orders, hook, peer>>

\* The caller has the result or the error; the locals of the call are gone.
UploadOver ==
    /\ up.pc \in {"returned", "threw"}
    /\ up' = NoUpload
    /\ rt' = NoRetry
    /\ UNCHANGED <<handlerVars, sig, invoice, journal, order, orders, hook, peer>>

\* retry(fn, tries, delayMs) called on its own, with any fn.
RetryCall(tries, delayMs) ==
    /\ up.pc = "idle"
    /\ rt.state = "none"
    /\ rt' = RetryStart(tries, delayMs)
    /\ UNCHANGED <<handlerVars, sig, invoice, journal, order, orders, hook, peer, up>>

\* The call of fn in progress ends with outcome o.
FnSettles(o) ==
    /\ up.pc = "idle"
    /\ rt.state = "calling"
    /\ rt' = RetryAnswer(rt, o)
    /\ UNCHANGED <<handlerVars, sig, invoice, journal, order, orders, hook, peer, up>>

\* The delay between two calls of fn is over.
TimerFires ==
    /\ up.pc = "idle"
    /\ rt.state = "waiting"
    /\ rt' = RetryWake(rt)
    /\ UNCHANGED <<handlerVars, sig, invoice, journal, order, orders, hook, peer, up>>

\* The caller of retry has the value or the error.
RetryOver ==
    /\ up.pc = "idle"
    /\ rt.state \in {"returned", "threw"}
    /\ rt' = NoRetry
    /\ UNCHANGED <<handlerVars, sig, invoice, journal, order, orders, hook, peer, up>>

\* The locals of a /verify request that has not arrived.
NoLocals ==
    [pc |-> "idle", body |-> NoBody, pdfPath |-> Null, githubResult |-> Null,
     mailInfo |-> Null, resp |-> NoReply, calls |-> NoCalls, created |-> Null,
     mail |-> "none", invoice |-> NoInvoice]

----------------------------------------------------------------------------
(* The server handling /verify requests *)

\* The state once the server listens: either revision, any configuration.
\* The configuration includes a missing RAZORPAY_KEY_SECRET, the case the
\* handler provides for with `safeEnv("RAZORPAY_KEY_SECRET") || ""`; whether
\* the gateway client constructed at start-up accepts a missing secret is
\* decided by the razorpay package, outside the repository.
Init ==
    /\ variant \in Variants
    /\ env \in Envs
    /\ pc = "idle"
    /\ body = NoBody
    /\ pdfPath = Null
    /\ githubResult = Null
    /\ mailInfo = Null
    /\ resp = NoReply
    /\ calls = NoCalls
    /\ created = Null
    /\ tmpFiles = {}
    /\ mail = "none"
    /\ sig = NoSig
    /\ invoice = NoInvoice
    /\ journal = <<>>
    /\ peer = NoLocals
    /\ up = NoUpload
    /\ rt = NoRetry
    /\ order = NoOrder
    /\ orders = {}
    /\ hook = NoHook

Next ==
    \/ \E b \in Bodies : Arrive(b)
    \/ CheckFields
    \/ CheckSignature
    \/ \E o \in RenderOutcomes : Render(o)
    \/ ArchiveStart
    \/ \E run \in UploadRuns \cup {[end |-> "throw", puts |-> 0]} : ArchiveEnd(run)
    \/ \E o \in {"failed_sync", "pending", "skip"} : NotifyStart(o)
    \/ MailRead
    \/ \E o \in {"sent", "failed_async", "never"} : NotifyEnd(o)
    \/ \E o \in {"ok", "fail"} : Cleanup(o)
    \/ Respond
    \/ \E o \in {"ok", "fail"} : OuterCatch(o)
    \/ \E o \in {"sent", "failed_async"} : MailSettle(o)
    \/ Finish

Spec == Init /\ [][Next]_vars

----------------------------------------------------------------------------
(* The signature check on its own: clients send triples, and resend an     *)
(* accepted triple with one character changed.                             *)

\* Characters of the ids and of the signatures sent to the signature check.
SigIdChars == {"a", "|"}
\* "F" stands for a hex digit in the other letter case.
HexChars == {"0", "1", "3", "e", "f", "F"}

SigIds == SeqsUpTo(SigIdChars, MaxIdLen) \ {<<>>}

\* s with one character replaced by another, removed, or inserted.
Substitutions(s, chars) ==
    {[s EXCEPT ![i] = c] : i \in 1..Len(s), c \in chars} \ {s}

Deletions(s) ==
    {SubSeq(s, 1, i - 1) \o SubSeq(s, i + 1, Len(s)) : i \in 1..Len(s)}

Insertions(s, chars) ==
    {SubSeq(s, 1, i) \o <<c>> \o SubSeq(s, i + 1, Len(s)) : i \in 0..Len(s), c \in chars}

SingleCharChanges(s, chars) ==
    Substitutions(s, chars) \cup Deletions(s) \cup Insertions(s, chars)

\* The bodies that differ from b by one character of one of the three fields.
MutatedBodies(b) ==
    {[b EXCEPT !.razorpay_order_id = o] :
        o \in SingleCharChanges(b.razorpay_order_id, SigIdChars)}
    \cup {[b EXCEPT !.razorpay_payment_id = q] :
        q \in SingleCharChanges(b.razorpay_payment_id, SigIdChars)}
    \cup {[b EXCEPT !.razorpay_signature = t] :
        t \in SingleCharChanges(b.razorpay_signature, HexChars)}

\* First submissions: the right signature, one made with another key, one
\* made for the two ids swapped.
SigBodies ==
    UNION {{BodyOf(o, q, t, NoCustomer) :
               t \in {ExpectedSignature(Secret, o, q), ExpectedSignature(<<>>, o, q),
                      ExpectedSignature(Secret, q, o)}} :
           o \in SigIds, q \in SigIds}

InitSig ==
    /\ variant \in Variants
    /\ env = EnvOf(Secret, Set, Set, Set, Set, Set, Set)
    /\ pc = "idle"
    /\ body = NoBody
    /\ pdfPath = Null
    /\ githubResult = Null
    /\ mailInfo = Null
    /\ resp = NoReply
    /\ calls = NoCalls
    /\ created = Null
    /\ tmpFiles = {}
    /\ mail = "none"
    /\ sig = [on |-> TRUE, mutated |-> FALSE]
    /\ invoice = NoInvoice
    /\ journal = <<>>
    /\ peer = NoLocals
    /\ up = NoUpload
    /\ rt = NoRetry
    /\ order = NoOrder
    /\ orders = {}
    /\ hook = NoHook

\* A client sends a triple.
SigArrive(b) ==
    /\ pc = "idle"
    /\ pc' = "received"
    /\ body' = b
    /\ sig' = [on |-> TRUE, mutated |-> FALSE]
    /\ UNCHANGED <<variant, env, pdfPath, githubResult, mailInfo, resp, calls,
                   created, tmpFiles, mail, invoice, otherVars>>

\* A client resends the accepted triple with one character changed.
SigMutate(b) ==
    /\ pc = "verified"
    /\ ~sig.mutated
    /\ b \in MutatedBodies(body)
    /\ pc' = "received"
    /\ body' = b
    /\ sig' = [on |-> TRUE, mutated |-> TRUE]
    /\ UNCHANGED <<variant, env, pdfPath, githubResult, mailInfo, resp, calls,
                   created, tmpFiles, mail, invoice, otherVars>>

\* The harness drops the request once the check has answered.
SigDone ==
    /\ pc \in {"verified", "responded"}
    /\ pc' = "idle"
    /\ body' = NoBody
    /\ resp' = NoReply
    /\ sig' = [on |-> TRUE, mutated |-> FALSE]
    /\ UNCHANGED <<variant, env, pdfPath, githubResult, mailInfo, calls,
                   created, tmpFiles, mail, invoice, otherVars>>

NextSig ==
    \/ \E b \in SigBodies : SigArrive(b)
    \/ CheckFields
    \/ CheckSignature
    \/ \E b \in MutatedBodies(body) : SigMutate(b)
    \/ SigDone

SpecSig == InitSig /\ [][NextSig]_vars

----------------------------------------------------------------------------
(* Orders and their invoices: clients create orders and send verified      *)
(* /verify requests carrying their own amount, customer and cart.          *)

\* The amounts sent to /create-order: none, null, 0, a negative number, a
\* number, a numeric string, a text, and true.
CreateAmounts ==
    {JsUndefined, Js("null", 0), Js("number", 0), Js("number", 0 - 100),
     Js("number", 50000), Js("numstring", 50000), Js("text", 0), Js("true", 1)}

\* The amountPaise of a /verify body: none, two numbers, a numeric string.
BodyAmounts ==
    {JsUndefined, Js("number", 50000), Js("number", 100), Js("numstring", 50000)}

\* The cart of a /verify body: none, an object, and arrays that are empty,
\* hold one item, or hold null.
Carts ==
    {NoCart, Cart("other", <<>>), Cart("array", <<>>),
     Cart("array", <<Item(2, 150)>>), Cart("array", <<NullItem>>)}

\* Correctly signed /verify bodies.
OrderBodies ==
    {[BodyOf(o, <<"a">>, ExpectedSignature(Secret, o, <<"a">>), c)
         EXCEPT !.amountPaise = a, !.cart = k] :
        o \in OrderIds, c \in {NoCustomer, [given |-> TRUE, email |-> <<"c">>]},
        a \in BodyAmounts, k \in Carts}

InitOrder ==
    /\ variant \in Variants
    /\ env = EnvOf(Secret, Set, Set, Set, Set, Set, Set)
    /\ pc = "idle"
    /\ body = NoBody
    /\ pdfPath = Null
    /\ githubResult = Null
    /\ mailInfo = Null
    /\ resp = NoReply
    /\ calls = NoCalls
    /\ created = Null
    /\ tmpFiles = {}
    /\ mail = "none"
    /\ sig = NoSig
    /\ invoice = NoInvoice
    /\ journal = <<>>
    /\ peer = NoLocals
    /\ up = NoUpload
    /\ rt = NoRetry
    /\ order = NoOrder
    /\ orders = {}
    /\ hook = NoHook

\* A /verify request arrives while no /create-order request is in flight.
OrderArrive(b) ==
    /\ order.pc = "idle"
    /\ Arrive(b)

NextOrder ==
    \/ \E a \in CreateAmounts : CreateArrive(TRUE, a)
    \/ CreateArrive(FALSE, JsUndefined)
    \/ CreateCheck
    \/ \E o \in {"created", "failed"}, id \in OrderIds : GatewayAnswer(o, id)
    \/ CreateFinish
    \/ \E b \in OrderBodies : OrderArrive(b)
    \/ CheckFields
    \/ CheckSignature
    \/ \E o \in RenderOutcomes : Render(o)
    \/ ArchiveStart
    \/ \E run \in UploadRuns : ArchiveEnd(run)
    \/ \E o \in {"failed_sync", "pending", "skip"} : NotifyStart(o)
    \/ MailRead
    \/ \E o \in {"sent", "failed_async", "never"} : NotifyEnd(o)
    \/ \E o \in {"ok", "fail"} : Cleanup(o)
    \/ Respond
    \/ \E o \in {"ok", "fail"} : OuterCatch(o)
    \/ \E o \in {"sent", "failed_async"} : MailSettle(o)
    \/ Finish

SpecOrder == InitOrder /\ [][NextOrder]_vars

----------------------------------------------------------------------------
(* The webhook on its own *)

WebhookSecret == <<"w">>

\* Raw bodies of at most MaxBodyLen bytes.
RawBodies == SeqsUpTo(ByteChars, MaxBodyLen)

\* The x-razorpay-signature headers sent with a raw body: none, empty, the
\* digest of the body's bytes or of its decoded text under the webhook secret,
\* under no key, and the digest of another body.
Headers(raw) ==
    {Undefined, <<>>,
     HmacHex(WebhookSecret, raw), HmacHex(WebhookSecret, Utf8Encode(Utf8Decode(raw))),
     HmacHex(<<>>, raw), HmacHex(WebhookSecret, <<"{">> \o raw)}

InitHook ==
    /\ variant = "server"
    /\ env \in {[EnvOf(Secret, Set, Set, Set, Set, Set, Set)
                    EXCEPT !.RAZORPAY_WEBHOOK_SECRET = w] : w \in {Undefined, WebhookSecret}}
    /\ pc = "idle"
    /\ body = NoBody
    /\ pdfPath = Null
    /\ githubResult = Null
    /\ mailInfo = Null
    /\ resp = NoReply
    /\ calls = NoCalls
    /\ created = Null
    /\ tmpFiles = {}
    /\ mail = "none"
    /\ sig = NoSig
    /\ invoice = NoInvoice
    /\ journal = <<>>
    /\ peer = NoLocals
    /\ up = NoUpload
    /\ rt = NoRetry
    /\ order = NoOrder
    /\ orders = {}
    /\ hook = NoHook

NextHook ==
    \/ \E raw \in RawBodies : \E h \in Headers(raw) : Webhook("buffer", raw, h)
    \/ \E kind \in {"none", "object"} : \E h \in Headers(<<>>) \cup Headers(<<"obj">>) :
          Webhook(kind, <<>>, h)
    \/ WebhookDone

SpecHook == InitHook /\ [][NextHook]_vars

----------------------------------------------------------------------------
(* The server under fair scheduling: a step of a handler that can be taken *)
(* is taken.  An await that never resumes is a state without such a step.  *)

InitLive ==
    /\ variant \in Variants
    /\ env = EnvOf(Secret, Set, Set, Set, Set, Set, Set)
    /\ pc = "idle"
    /\ body = NoBody
    /\ pdfPath = Null
    /\ githubResult = Null
    /\ mailInfo = Null
    /\ resp = NoReply
    /\ calls = NoCalls
    /\ created = Null
    /\ tmpFiles = {}
    /\ mail = "none"
    /\ sig = NoSig
    /\ invoice = NoInvoice
    /\ journal = <<>>
    /\ peer = NoLocals
    /\ up = NoUpload
    /\ rt = NoRetry
    /\ order = NoOrder
    /\ orders = {}
    /\ hook = NoHook

\* The steps of the handler and of the calls it started.
HandlerStep ==
    \/ CheckFields
    \/ CheckSignature
    \/ \E o \in RenderOutcomes : Render(o)
    \/ ArchiveStart
    \/ \E run \in UploadRuns \cup {[end |-> "throw", puts |-> 0]} : ArchiveEnd(run)
    \/ \E o \in {"failed_sync", "pending", "skip"} : NotifyStart(o)
    \/ MailRead
    \/ \E o \in {"sent", "failed_async", "never"} : NotifyEnd(o)
    \/ \E o \in {"ok", "fail"} : Cleanup(o)
    \/ Respond
    \/ \E o \in {"ok", "fail"} : OuterCatch(o)
    \/ \E o \in {"sent", "failed_async"} : MailSettle(o)

SpecLive == InitLive /\ [][Next]_vars /\ WF_vars(HandlerStep)

----------------------------------------------------------------------------
(* Two /verify requests in flight.  Node runs a handler until its next     *)
(* await and may then continue the other request; the handlers share       *)
(* nothing but the process environment and the files in TMP_DIR.           *)

\* Positions at which the handler is suspended in an await (of the render,
\* the upload, the send, an unlink), has not started, or has answered.
Suspended(p) ==
    p \in {"idle", "verified", "uploading", "upload_stalled", "sending",
           "send_stalled", "notified", "catch", "responded"}

\* The locals of the request that is running.
Locals ==
    [pc |-> pc, body |-> body, pdfPath |-> pdfPath, githubResult |-> githubResult,
     mailInfo |-> mailInfo, resp |-> resp, calls |-> calls, created |-> created,
     mail |-> mail, invoice |-> invoice]

\* githubResult as the resumed request sees it: `let githubResult = null` is
\* declared inside the handler, so every request has its own.
ResultSharedByRequests(l) == githubResult
ResumedResult(l) == l.githubResult

\* The event loop leaves the running request at its await and continues the other.
Switch ==
    /\ Suspended(pc)
    /\ peer' = Locals
    /\ pc' = peer.pc
    /\ body' = peer.body
    /\ pdfPath' = peer.pdfPath
    /\ githubResult' = ResumedResult(peer)
    /\ mailInfo' = peer.mailInfo
    /\ resp' = peer.resp
    /\ calls' = peer.calls
    /\ created' = peer.created
    /\ mail' = peer.mail
    /\ invoice' = peer.invoice
    /\ UNCHANGED <<variant, env, tmpFiles, sig, journal, order, orders, hook, up, rt>>

\* Order ids of the two requests: "|" and "_" differ, and server.js gives
\* both the file name "_".
TwoOrderIds == {<<"a">>, <<"|">>, <<"_">>}

\* Verifiable requests for these orders, with and without a customer email.
TwoBodies ==
    {BodyOf(o, <<"a">>, HmacHex(Secret, SignedMessage(o, <<"a">>)), c) :
        o \in TwoOrderIds, c \in {NoCustomer, [given |-> TRUE, email |-> <<"c">>]}}

\* Either revision, the gateway secret and SMTP configured, the archive
\* configured or left without a token.
InitTwo ==
    /\ variant \in Variants
    /\ env \in {EnvOf(Secret, Set, Set, t, Set, Set, Set) : t \in {Set, Undefined}}
    /\ pc = "idle"
    /\ body = NoBody
    /\ pdfPath = Null
    /\ githubResult = Null
    /\ mailInfo = Null
    /\ resp = NoReply
    /\ calls = NoCalls
    /\ created = Null
    /\ tmpFiles = {}
    /\ mail = "none"
    /\ sig = NoSig
    /\ invoice = NoInvoice
    /\ journal = <<>>
    /\ peer = NoLocals
    /\ up = NoUpload
    /\ rt = NoRetry
    /\ order = NoOrder
    /\ orders = {}
    /\ hook = NoHook

NextTwo ==
    \/ \E b \in TwoBodies : Arrive(b)
    \/ CheckFields
    \/ CheckSignature
    \/ \E o \in RenderOutcomes : Render(o)
    \/ ArchiveStart
    \/ \E run \in UploadRuns \cup {[end |-> "throw", puts |-> 0]} : ArchiveEnd(run)
    \/ \E o \in {"failed_sync", "pending", "skip"} : NotifyStart(o)
    \/ MailRead
    \/ \E o \in {"sent", "failed_async", "never"} : NotifyEnd(o)
    \/ \E o \in {"ok", "fail"} : Cleanup(o)
    \/ Respond
    \/ \E o \in {"ok", "fail"} : OuterCatch(o)
    \/ \E o \in {"sent", "failed_async"} : MailSettle(o)
    \/ Finish
    \/ Switch

SpecTwo == InitTwo /\ [][NextTwo]_vars

----------------------------------------------------------------------------
(* retry on its own, and uploadFileToGitHub against every behaviour of GitHub *)

\* Largest tries a caller of retry passes.
MaxTries == 3

\* What a call of fn can do: return one of two values, throw one of two
\* errors, or never settle.
FnOutcomes ==
    {Outcome("return", <<"v1">>), Outcome("return", <<"v2">>),
     Outcome("throw", <<"e1">>), Outcome("throw", <<"e2">>),
     Outcome("never", Undefined)}

InitRetry == InitLive

NextRetry ==
    \/ \E t \in 0..MaxTries, d \in {GetDelayMs, PutDelayMs, DefaultDelayMs} : RetryCall(t, d)
    \/ \E o \in FnOutcomes : FnSettles(o)
    \/ TimerFires
    \/ RetryOver

SpecRetry == InitRetry /\ [][NextRetry]_vars

InitUpload == InitLive

NextUpload ==
    \/ \E args \in UploadCalls, read \in {"ok", "enoent"} : UploadCall(args, read)
    \/ \E a \in GetResponses : CheckAnswer(a)
    \/ \E a \in PutResponses : PutAnswer(a)
    \/ UploadWake
    \/ UploadOver

SpecUpload == InitUpload /\ [][NextUpload]_vars

----------------------------------------------------------------------------
(* Properties *)

\* The configured gateway secret, or the empty string when none is configured.
GatewayKey ==
    IF env["RAZORPAY_KEY_SECRET"] = Undefined THEN <<>> ELSE env["RAZORPAY_KEY_SECRET"]

\* hex HMAC-SHA256 of orderId + "|" + paymentId under the gateway key.
GatewayDigest(b) ==
    HmacHex(GatewayKey, b.razorpay_order_id \o <<"|">> \o b.razorpay_payment_id)

\* The request in flight carries all three required fields, non-empty.
FieldsPresent ==
    /\ body.parsed
    /\ ~Falsy(body.razorpay_order_id)
    /\ ~Falsy(body.razorpay_payment_id)
    /\ ~Falsy(body.razorpay_signature)

ValidRequest == FieldsPresent /\ body.razorpay_signature = GatewayDigest(body)

RenderSucceeded == calls.render = 1 /\ pdfPath # Null
RenderFailed == calls.render = 1 /\ pdfPath = Null

UploadThrew == calls.upload = 1 /\ githubResult = Null
SendFailed == mail \in {"failed_sync", "failed_async"}

NoSideEffects == calls = NoCalls /\ created = Null /\ mail = "none"

SmtpConfigured ==
    /\ env["SMTP_HOST"] # Undefined
    /\ env["SMTP_USER"] # Undefined
    /\ env["SMTP_PASS"] # Undefined

CustomerEmailGiven == body.customer.given /\ ~Falsy(body.customer.email)

ArchiveConfigured ==
    /\ env["GITHUB_OWNER"] # Undefined
    /\ env["GITHUB_REPO"] # Undefined
    /\ env["GITHUB_TOKEN"] # Undefined

\* C1: a request with the three fields present, a valid signature and a
\* successful render never enters the handler's error path and is answered
\* 200 with ok:true, whatever the archival and the notification did.
C1_FanOutIsolation ==
    (ValidRequest /\ RenderSucceeded) =>
        /\ pc # "catch"
        /\ pc = "responded" => (resp.status = 200 /\ resp.ok = TRUE)

\* Both sinks were invoked and both threw, and the answer is 200 ok:true.
C1_Witness ==
    /\ pc = "responded"
    /\ ValidRequest /\ RenderSucceeded
    /\ UploadThrew /\ SendFailed
    /\ resp.status = 200 /\ resp.ok = TRUE

\* C2: a request with the three fields non-empty whose signature differs from
\* the digest of orderId|paymentId under the gateway key goes no further than
\* the signature check, is answered 400 "Invalid signature", and creates no
\* file, uploads nothing and sends no email.
C2_BadSignatureRejected ==
    (FieldsPresent /\ body.razorpay_signature # GatewayDigest(body)) =>
        /\ pc \in {"received", "fields_ok", "responded"}
        /\ NoSideEffects
        /\ pc = "responded" => resp = InvalidSignatureReply

\* A signature computed from another payment id than the one supplied was
\* answered 400 "Invalid signature".
C2_Witness ==
    /\ pc = "responded"
    /\ FieldsPresent
    /\ \E q \in PaymentIds \ {body.razorpay_payment_id} :
          body.razorpay_signature =
              HmacHex(GatewayKey, body.razorpay_order_id \o <<"|">> \o q)
    /\ resp = InvalidSignatureReply

\* C3 (as claimed): a request in which one of the three fields is missing or
\* empty is answered 400 "Missing required fields" before the signature is
\* checked and without any side effect.
C3_MissingFieldsRejected ==
    (pc # "idle" /\ ~FieldsPresent) =>
        /\ pc \in {"received", "catch", "responded"}
        /\ NoSideEffects
        /\ pc = "responded" => resp = MissingFieldsReply

\* C4: with a secret configured, the signature check accepts a triple exactly
\* when the signature is the digest of orderId|paymentId under the secret; an
\* accepted triple resent with one character of one field changed is not
\* accepted; and the check has no side effect.
C4_SignatureCheck ==
    sig.on =>
        /\ pc = "verified" => body.razorpay_signature = GatewayDigest(body)
        /\ (pc = "responded" /\ FieldsPresent) =>
               /\ body.razorpay_signature # GatewayDigest(body)
               /\ resp = InvalidSignatureReply
        /\ sig.mutated => pc # "verified"
        /\ NoSideEffects /\ tmpFiles = {}

\* An accepted triple was resent with one character of the order id changed,
\* all three fields still non-empty, and the check rejected it.
C4_Witness ==
    /\ sig.on /\ sig.mutated
    /\ pc = "responded"
    /\ FieldsPresent
    /\ body.razorpay_signature \in
          {HmacHex(GatewayKey, o \o <<"|">> \o body.razorpay_payment_id) : o \in SigIds}
    /\ resp = InvalidSignatureReply

\* C5 (as claimed): with no gateway secret configured, no request gets past
\* the signature check and none is answered ok:true.
C5_NoSecretNoVerification ==
    env["RAZORPAY_KEY_SECRET"] = Undefined =>
        /\ pc \in {"idle", "received", "fields_ok", "catch", "responded"}
        /\ pc = "responded" => resp.ok = FALSE

\* C6: when the render of a signature-verified request fails, the handler
\* goes to its error path, invokes neither sink, and answers 500 with ok:false.
C6_RenderFailureFatal ==
    RenderFailed =>
        /\ pc \in {"catch", "responded"}
        /\ calls.upload = 0 /\ calls.sendMail = 0
        /\ pc = "responded" => (resp.status = 500 /\ resp.ok = FALSE)

\* A render failed and the request was answered 500.
C6_Witness ==
    /\ pc = "responded"
    /\ ValidRequest /\ RenderFailed
    /\ resp.status = 500 /\ resp.ok = FALSE

\* C7 (as claimed): when a request has responded, the invoice file it created
\* is gone from the temp directory, and between requests the directory holds
\* no invoice file.
C7_TempFileRemoved ==
    /\ pc = "responded" => (created = Null \/ created \notin tmpFiles)
    /\ pc = "idle" => tmpFiles = {}

\* C8 (as claimed): with owner, repository or token missing, the uploader is
\* never invoked and a success response carries github: null.
C8_UnconfiguredArchiveSkipped ==
    ~ArchiveConfigured =>
        /\ calls.upload = 0
        /\ (pc = "responded" /\ resp.status = 200) => resp.github = Null

C10_NotifyFieldTruthful ==
    (pc = "responded" /\ resp.status = 200 /\ resp.notify = TRUE) => calls.sendMail >= 1

\* The orders the gateway created under an order id.
OrderOf(id) == {r \in orders : r.id = id}

\* The request in flight names an order that /create-order returned.
KnownOrder == body.parsed /\ OrderOf(body.razorpay_order_id) # {}

\* C11 (as claimed): the invoice of a verified request for an order that
\* /create-order returned carries the amount the order was created with, as
\* amountPaise and as the "Total Paid" figure, whatever the /verify body holds.
C11_InvoiceFromRecordedFacts ==
    (ValidRequest /\ RenderSucceeded) =>
        \A r \in OrderOf(body.razorpay_order_id) :
            /\ invoice.amountPaise = Js("number", r.amount)
            /\ invoice.totalShown
            /\ invoice.totalPaid = Fixed2(r.amount)

\* C12: a verified request for an order id that /create-order never
\* returned is rendered from its own body: the customer or {} when absent,
\* the cart or [] when it is no array, amountPaise only when it is a number.
\* Nothing but a failing render sends it to the error path, and it is
\* answered 200 ok:true whenever the render succeeded.
C12_DegradedResolution ==
    (ValidRequest /\ ~KnownOrder) =>
        /\ invoice.made =>
              /\ invoice.customer = (IF body.customer.given THEN body.customer
                                     ELSE [given |-> TRUE, email |-> Undefined])
              /\ invoice.cart = (IF body.cart.kind = "array" THEN body.cart.items
                                 ELSE <<>>)
              /\ invoice.amountPaise = (IF body.amountPaise.t = "number"
                                        THEN body.amountPaise ELSE JsUndefined)
              /\ invoice.totalShown => body.amountPaise.t = "number"
        /\ pc = "catch" => RenderFailed
        /\ pc = "responded" => (RenderFailed \/ (resp.status = 200 /\ resp.ok = TRUE))

\* A verified request for an unknown order, without customer and cart and
\* with the amount sent as a string, was rendered with {}, [] and no amount
\* and answered 200 ok:true.
C12_Witness ==
    /\ pc = "responded"
    /\ ValidRequest /\ ~KnownOrder /\ RenderSucceeded
    /\ ~body.customer.given /\ body.cart.kind = "absent"
    /\ body.amountPaise.t = "numstring"
    /\ invoice.cart = <<>> /\ invoice.amountPaise = JsUndefined
    /\ resp.status = 200 /\ resp.ok = TRUE

\* The journal holds a Verification Event for the request in flight.
VerificationRecorded ==
    \E i \in DOMAIN journal :
        /\ journal[i].orderId = body.razorpay_order_id
        /\ journal[i].paymentId = body.razorpay_payment_id

\* C13 (as claimed): when a request that passed the signature check has been
\* answered, the journal holds its Verification Event; when a rejected request
\* has been answered, it holds none.
C13_VerificationEventWritten ==
    pc = "responded" =>
        IF ValidRequest THEN VerificationRecorded ELSE ~VerificationRecorded

\* C14 (as claimed): a request calls the uploader at most once, sends the PUT
\* at most once, and calls sendMail at most once.
C14_OneUploadOnePutOneSend ==
    calls.upload <= 1 /\ calls.put <= 1 /\ calls.sendMail <= 1

\* C14 (amended): a request calls the uploader at most once and sendMail at
\* most once; within the uploader call the PUT is sent at most three times,
\* and only by a request that called the uploader.
C14_OneUploadOneSendBoundedPut ==
    /\ calls.upload <= 1
    /\ calls.sendMail <= 1
    /\ calls.put <= 3
    /\ calls.put > 0 => calls.upload = 1

\* The third PUT of one uploader call succeeded, the email was sent, and the
\* request was answered.
C14_Witness ==
    /\ pc = "responded"
    /\ calls.upload = 1 /\ calls.put = 3 /\ githubResult # Null
    /\ calls.sendMail = 1

\* A webhook secret is configured.
HookSecretSet == env["RAZORPAY_WEBHOOK_SECRET"] # Undefined

\* The header of the webhook request is non-empty and is the digest of the
\* raw body bytes under the webhook secret.
HookSignatureValid ==
    /\ hook.kind = "buffer"
    /\ ~Falsy(hook.header)
    /\ hook.header = HmacHex(env["RAZORPAY_WEBHOOK_SECRET"], hook.raw)

\* C15 (as claimed): with a webhook secret configured, a request is answered
\* 200 only if its header is the digest of the raw body bytes and the body
\* parses; a request whose header is missing or is not that digest is answered
\* 400 without the body being parsed; a request with that digest and a body
\* that does not parse is answered 400.
C15_WebhookSignatureChecked ==
    (HookSecretSet /\ hook.handled) =>
        /\ hook.reply.status = 200 =>
              (HookSignatureValid /\ JsonParses(Utf8Decode(hook.raw)))
        /\ ~HookSignatureValid =>
              (hook.reply.status = 400 /\ ~hook.reply.parseCalled)
        /\ (HookSignatureValid /\ ~JsonParses(Utf8Decode(hook.raw))) =>
              hook.reply.status = 400

\* C16: with no webhook secret configured, every request is logged as
\* "verification skipped", no signature is compared, and the answer is a
\* function of the body alone: 200 when it parses as JSON, 400 when not.
C16_NoSecretSameForEverySignature ==
    (~HookSecretSet /\ hook.handled) =>
        /\ hook.reply.log = "skipped"
        /\ ~hook.reply.compared
        /\ hook.reply.status =
              (IF JsonParses(BodyStr(hook.kind, hook.raw)) THEN 200 ELSE 400)

\* With no secret configured, a request carrying a signature made for another
\* body was answered 200 and logged as skipped.
C16_Witness ==
    /\ ~HookSecretSet /\ hook.handled
    /\ hook.header = HmacHex(WebhookSecret, <<"{">> \o hook.raw)
    /\ hook.reply.status = 200 /\ hook.reply.log = "skipped"

\* The amount of the /create-order request in flight is missing, non-numeric,
\* zero or negative.
AmountInvalid ==
    \/ ~order.parsed
    \/ order.amount.t \notin {"number", "numstring"}
    \/ order.amount.n <= 0

\* C17 (as claimed): a request with an invalid amount never reaches the
\* gateway and is answered 400; any other request calls the gateway once and
\* is answered with the order or with 500.
C17_CreateOrderValidates ==
    order.pc # "idle" =>
        IF AmountInvalid
        THEN /\ order.gatewayCalls = 0
             /\ order.pc = "responded" => order.resp.status = 400
        ELSE /\ order.gatewayCalls <= 1
             /\ order.pc = "responded" =>
                   (order.gatewayCalls = 1 /\ order.resp.status \in {200, 500})

\* The send of the request in flight has been started and has not ended.
SendUnfinished == mail \in {"pending", "streamed"}

\* The order of the first steps: the render follows an accepted signature, the
\* upload a finished render, the send the end of the archival step.
FirstStepsInOrder ==
    /\ calls.render = 1 => ValidRequest
    /\ calls.upload >= 1 => RenderSucceeded
    /\ calls.sendMail >= 1 =>
          pc \in {"sending", "send_stalled", "notified", "cleaned", "responded"}

\* C18 (as claimed): the steps run in order, and the success response is sent
\* only after the send has ended or was skipped.
C18_StepsInOrder ==
    /\ FirstStepsInOrder
    /\ (pc = "responded" /\ resp.status = 200) => ~SendUnfinished

\* C18 (amended): the steps run in order, and the success response is sent only
\* after sendMail was called or the send was skipped; in part_000 the send has
\* also ended by then.
C18_StepsInOrderSendStarted ==
    /\ FirstStepsInOrder
    /\ (pc = "responded" /\ resp.status = 200) =>
          /\ calls.sendMail = (IF SmtpConfigured /\ CustomerEmailGiven THEN 1 ELSE 0)
          /\ variant = "part000" => ~SendUnfinished

\* server.js answered 200 after the upload had ended and the send had been
\* started, while the send was still pending.
C18_Witness ==
    /\ pc = "responded" /\ resp.status = 200
    /\ variant = "server"
    /\ calls.upload = 1 /\ calls.sendMail = 1
    /\ mail = "pending"

\* C19 (as claimed): every request received is eventually answered.
C19_EveryRequestAnswered == (pc = "received") ~> (pc = "responded")

\* C20 (as claimed): the invoice file is on the disk as long as a started
\* upload or send still has to read it, and no send is unfinished once the
\* request has been answered.
C20_ArtifactOutlivesSinks ==
    /\ (pc = "uploading" \/ mail = "pending") => created \in tmpFiles
    /\ pc = "responded" => ~SendUnfinished

\* The suspended request still uses the invoice file f: it has created it and
\* is awaiting its upload, its send or its own unlink.
PeerUsing(f) ==
    peer.created = f /\ peer.pc \in {"uploading", "sending", "notified"}

\* The running request creates or truncates f (createWriteStream in the render).
RunningWrites(f) == peer' = peer /\ pc = "verified" /\ created' = f

\* The running request removes f.
RunningDeletes(f) == peer' = peer /\ f \in tmpFiles /\ f \notin tmpFiles'

\* C21: of two /verify requests in flight, neither writes, overwrites or
\* deletes the temporary invoice file the other is still using, also when both
\* carry the same order id or order ids with the same sanitised file name.
C21_TempFileExclusive ==
    [][\A o \in TwoOrderIds :
          PeerUsing(InvoiceFileName(variant, o)) =>
              /\ ~RunningWrites(InvoiceFileName(variant, o))
              /\ ~RunningDeletes(InvoiceFileName(variant, o))]_vars

\* The request in flight repeats one that was answered ok:true: the same
\* order id, payment id and valid signature as the request whose locals the
\* other slot still shows.
AlreadyVerified ==
    /\ peer.pc = "responded"
    /\ peer.resp.ok
    /\ peer.body.razorpay_order_id = body.razorpay_order_id
    /\ peer.body.razorpay_payment_id = body.razorpay_payment_id
    /\ peer.body.razorpay_signature = body.razorpay_signature
    /\ ValidRequest

\* C22: a second /verify for an (orderId, paymentId) pair that was already
\* verified, with the same valid signature, is not rejected: the render runs
\* again, the answer is never a 400, and once the render has succeeded the
\* answer is ok:true with the upload called again when the archive is
\* configured and the send called again when SMTP and an address are there.
C22_RepeatFulfilledAgain ==
    (AlreadyVerified /\ pc = "responded") =>
        /\ calls.render = 1
        /\ resp.status # 400
        /\ resp.status = 500 => RenderFailed
        /\ RenderSucceeded =>
              /\ resp.ok
              /\ ArchiveConfigured => calls.upload = 1
              /\ (SmtpConfigured /\ CustomerEmailGiven) => calls.sendMail = 1

\* A repeated request answered ok:true after a second upload and a second send.
C22_Witness ==
    /\ AlreadyVerified
    /\ pc = "responded"
    /\ resp.ok
    /\ peer.githubResult # Null
    /\ githubResult # Null
    /\ calls.upload = 1 /\ calls.sendMail = 1

\* The last call of fn that retry made.
LastCall == rt.log[Len(rt.log)]

\* Every call of fn made so far threw.
AllCallsThrew == \A k \in 1..Len(rt.log) : rt.log[k].kind = "throw"

\* What retry does for every fn: at most `tries` calls; only a call that
\* threw is followed by another; a return passes on the value of the last
\* call; a throw comes after exactly `tries` calls that all threw and passes
\* on the error of the last; `tries` throwing calls always end in the throw;
\* a delay is waited only between two calls, never after the last.
RetryContract ==
    /\ RetryCalls(rt) <= rt.tries
    /\ \A k \in 1..(Len(rt.log) - 1) : rt.log[k].kind = "throw"
    /\ rt.state = "returned" => (LastCall.kind = "return" /\ rt.out = LastCall.what)
    /\ rt.state = "threw" =>
          /\ Len(rt.log) = rt.tries
          /\ AllCallsThrew
          /\ rt.tries > 0 => rt.out = LastCall.what
    /\ (rt.state # "none" /\ Len(rt.log) = rt.tries /\ AllCallsThrew) => rt.state = "threw"
    /\ Len(rt.waits) = (IF rt.state = "calling" THEN Len(rt.log)
                        ELSE IF rt.log = <<>> THEN 0 ELSE Len(rt.log) - 1)

ClientError(a) == a.status >= 400 /\ a.status <= 499

\* C24: the archival calls are repeated only after transient failures: a GET
\* answered with a 4xx other than 404, or a PUT answered with a 4xx, is the
\* last GET, respectively the last PUT, of the upload.
C24_ClientErrorNotRepeated ==
    /\ \A k \in 1..(Len(up.gets) - 1) :
          ~(ClientError(up.gets[k]) /\ up.gets[k].status # 404)
    /\ \A k \in 1..(Len(up.puts) - 1) : ~ClientError(up.puts[k])

\* The last answer to the existence check.
LastGet == up.gets[Len(up.gets)]

\* An answer that concludes the existence check: 200 with a JSON body, or 404.
CheckConcluded(a) == (a.status = 200 /\ a.body = "json") \/ a.status = 404

\* A PUT has been issued: one is in progress or has been answered.
PutIssued == up.pc = "putting" \/ up.puts # <<>>

\* A required argument of the call is missing.
RequiredArgMissing ==
    \/ Falsy(up.args.owner) \/ Falsy(up.args.repo)
    \/ Falsy(up.args.path) \/ Falsy(up.args.token)

\* C25: a PUT is issued only after the existence check concluded with 200 or
\* 404; a 404 ends the check at once and the PUT then carries no sha; after a
\* 200 with a sha the PUT carries that sha; three failed checks make the
\* uploader throw without any PUT; a missing owner, repo, path, token or
\* content makes it throw before any network call.
C25_PutOnlyAfterCheck ==
    /\ PutIssued => (up.gets # <<>> /\ CheckConcluded(LastGet))
    /\ \A k \in 1..(Len(up.gets) - 1) : up.gets[k].status # 404
    /\ (PutIssued /\ LastGet.status = 404) => up.payloadSha = Undefined
    /\ (PutIssued /\ LastGet.status = 200 /\ LastGet.sha \in Shas) =>
          up.payloadSha = LastGet.sha
    /\ (Len(up.gets) = GetTries /\ \A k \in 1..GetTries : GetFn(up.gets[k]).kind = "throw") =>
          (up.pc = "threw" /\ up.error = "check" /\ ~PutIssued)
    /\ up.error = "check" => Len(up.gets) = GetTries
    /\ (up.pc # "idle" /\ RequiredArgMissing) =>
          (up.pc = "threw" /\ up.error = "args" /\ up.reads = 0)
    /\ (up.pc # "idle" /\ Falsy(up.args.localFilePath) /\ Falsy(up.args.contentBuffer)) =>
          (up.pc = "threw" /\ up.error \in {"args", "content"})
    /\ up.error \in {"args", "content", "read"} => (up.gets = <<>> /\ up.puts = <<>>)

\* An upload that returned after a failed GET, a GET answered 200 with a sha,
\* and a PUT carrying that sha.
C25_Witness ==
    /\ up.pc = "returned"
    /\ Len(up.gets) = 2
    /\ up.gets[1].status = 500
    /\ LastGet.status = 200
    /\ up.payloadSha = <<"x">>
    /\ Len(up.puts) = 1

\* The reference the other request in flight holds or has answered with.
PeerReference == GithubField(peer.githubResult)

\* C26: in every success response of /verify the github sub-field is non-null
\* exactly when the upload of that same request returned; it is null when the
\* upload was skipped or threw; and it is the reference of this request's own
\* upload, never the one another request produced.
C26_GithubFieldIsOwnUpload ==
    (pc = "responded" /\ resp.ok) =>
        /\ resp.github # Null <=> calls.uploaded = 1
        /\ calls.upload = 0 => resp.github = Null
        /\ UploadThrew => resp.github = Null
        /\ resp.github # Null =>
              /\ resp.github[3] = InvoiceFileName(variant, body.razorpay_order_id)[1]
              /\ PeerReference # Null => resp.github # PeerReference

\* Two requests for the same order answered ok:true, each after an upload
\* that returned.
C26_Witness ==
    /\ pc = "responded" /\ resp.ok /\ resp.github # Null
    /\ peer.pc = "responded" /\ peer.resp.ok /\ peer.resp.github # Null
    /\ peer.body.razorpay_order_id = body.razorpay_order_id

====
